---- MODULE Spec2Model ----
(***************************************************************************)
(* starlette_graphene3.GraphQLApp: the graphql-ws session run over one     *)
(* WebSocket connection (_run_websocket_server and what it calls).         *)
(*                                                                         *)
(* One message loop task and one observer task per started subscription.   *)
(* Tasks interleave only where the code awaits.  The GraphQL engine and    *)
(* the socket are collaborators: their answers are drawn as inputs (the    *)
(* `kind` of a start payload says what parse, validate, subscribe and      *)
(* execute answer for it).                                                 *)
(*                                                                         *)
(* Further down: one HTTP request through GraphQLApp.__call__ (HttpSpec),  *)
(* with the operation extractor and the multipart file injection.          *)
(***************************************************************************)
EXTENDS Integers, Sequences, FiniteSets, TLC

\* ---------------------------------------------------------------- bounds
MaxMsgs == 2      \* client messages received on the connection
MaxProds == 2     \* subscriptions started on the connection
MaxVals == 2      \* values the producers of the connection yield in all

\* ------------------------------------------------------------- constants
GQL_CONNECTION_ACK == "connection_ack"
GQL_CONNECTION_INIT == "connection_init"
GQL_CONNECTION_TERMINATE == "connection_terminate"
GQL_COMPLETE == "complete"
GQL_DATA == "data"
GQL_ERROR == "error"
GQL_START == "start"
GQL_STOP == "stop"

CONNECTED == "CONNECTED"
DISCONNECTED == "DISCONNECTED"

\* --------------------------------------------------------------- inputs
Ids == {"q1", "q2"}
NoId == "-"
Params == {"null", "p1"}
NoParams == "unset"
\* message.get("type") of a message that carries no type
NoType == "None"

\* What the collaborators answer for a start payload:
\*   absent, noquery     the payload is None / has no "query" key
\*   ctx_raises          the context_value callable raises
\*   parse_error         parse() raises GraphQLError
\*   invalid             validate() returns errors
\*   sub_err             a subscription, subscribe() returns an error result
\*   sub_ok              a subscription, subscribe() returns a producer
\*   q_sync_err          a query, execute() returns an error result at once
\*   q_sync_ok           a query, execute() returns a result at once
\*   q_async_ok          a query, the awaited result has no errors
\*   q_async_err         a query, the awaited result has errors
StartKinds == {"absent", "noquery", "ctx_raises", "parse_error", "invalid",
               "sub_err", "sub_ok", "q_sync_err", "q_sync_ok", "q_async_ok",
               "q_async_err"}

ParseErrors == <<"syntax">>
ValidationErrors == <<"v1", "v2">>
SubscribeErrors == <<"s1", "s2">>
ExecuteSyncErrors == <<"x1", "x2">>
ExecuteAsyncErrors == <<"r1", "r2">>

NoMsg == [type |-> "-", id |-> NoId, kind |-> "-"]

ClientMessages ==
    {[type |-> GQL_CONNECTION_INIT, id |-> NoId, kind |-> p] : p \in Params}
    \cup {[type |-> GQL_CONNECTION_TERMINATE, id |-> NoId, kind |-> "-"]}
    \cup {[type |-> GQL_START, id |-> i, kind |-> k] : i \in Ids, k \in StartKinds}
    \cup {[type |-> GQL_STOP, id |-> i, kind |-> "-"] : i \in Ids}
    \cup {[type |-> t, id |-> NoId, kind |-> "-"] : t \in {"unknown", NoType}}

\* ---------------------------------------------------------------- state
VARIABLES
    pc,                 \* the message loop: recv, handle, teardown, done
    raised,             \* an error other than WebSocketDisconnect left the loop
    msg,                \* the client message being handled
    nrecv,              \* client messages received so far
    client_state,       \* websocket.client_state
    application_state,  \* websocket.application_state
    connection_params,  \* websocket.scope["connection_params"]
    subscriptions,      \* the registry: id -> producer (0: no entry)
    prods,              \* the producers subscribe() returned, with their observers
    sent,               \* the messages handed to the socket, in order
    stopped,            \* history: the producers a handled stop was addressed to
                        \* (0: a stop that found no entry for its id)
    handshake           \* history: what the client sent first, an init or a start

vars == <<pc, raised, msg, nrecv, client_state, application_state,
          connection_params, subscriptions, prods, sent, stopped, handshake>>

\* The state of one HTTP request served by GraphQLApp.__call__ (the actions are
\* further down); a WebSocket session leaves it alone.
VARIABLES
    request,            \* the request: method, Content-Type header, body
    hpc,                \* where the request is: idle, call, extract, inject,
                        \* batch, execute, done
    operations,         \* the operations value being extracted
    todo,               \* the (file, path) pairs of the map still to inject
    response,           \* the response returned, if any
    hraised,            \* the error that left __call__ uncaught, if any
    engine_calls,       \* calls of graphql() made for the request
    result,             \* the ExecutionResult graphql() returned
    app                 \* the GraphQLApp serving it: context_value, on_get

hvars == <<request, hpc, operations, todo, response, hraised, engine_calls, result,
           app>>

NoRequest == [method |-> "-"]
NoResponse == [status |-> 0, json |-> FALSE, keys |-> {}, body |-> <<>>]
NoError == "-"
NoOperations == [t |-> "unset"]
NoApp == [context_value |-> "-", on_get |-> "-"]
NoResult == [data |-> "-", errors |-> <<>>]

\* no HTTP request is being served
HttpIdle ==
    /\ request = NoRequest
    /\ hpc = "idle"
    /\ operations = NoOperations
    /\ todo = <<>>
    /\ response = NoResponse
    /\ hraised = NoError
    /\ engine_calls = 0
    /\ result = NoResult
    /\ app = NoApp

\* ------------------------------------------------------- outbound messages
\* error_formatter: a GraphQLError to a JSON object
ErrorFormatter(e) == [message |-> e]

FormatAll(errors) == [i \in 1..Len(errors) |-> ErrorFormatter(errors[i])]

\* `prod` is not on the wire: it names the subscription whose observer sent the
\* message (0: sent by the message loop).  `keys` are the keys of the payload.
OutMsg(type, id, prod, keys, data, errors) ==
    [type |-> type, id |-> id, prod |-> prod, keys |-> keys, data |-> data,
     errors |-> errors]

\* (mutant of AckMsg) the init is answered with a keep-alive, not an ack
AckAsKeepAlive == OutMsg("ka", NoId, 0, {}, "-", <<>>)

AckMsg == OutMsg(GQL_CONNECTION_ACK, NoId, 0, {}, "-", <<>>)

CompleteMsg(id, p) == OutMsg(GQL_COMPLETE, id, p, {}, "-", <<>>)

\* ------------------------------------------------------------ the socket
SocketOpen(cs, as) == cs # DISCONNECTED /\ as # DISCONNECTED

\* websocket.send_json: raises once the application has closed the socket; with
\* the client gone the transport either takes the message or raises.
SendOutcomes(cs, as) ==
    IF as = DISCONNECTED THEN {"raise"}
    ELSE IF cs = DISCONNECTED THEN {"ok", "raise"}
    ELSE {"ok"}

\* the session right after websocket.accept
WsAccepted ==
    /\ pc = "recv"
    /\ raised = FALSE
    /\ msg = NoMsg
    /\ nrecv = 0
    /\ client_state = CONNECTED
    /\ application_state = CONNECTED
    /\ connection_params = NoParams
    /\ subscriptions = [i \in Ids |-> 0]
    /\ prods = <<>>
    /\ sent = <<>>
    /\ stopped = {}
    /\ handshake = "none"

Init == WsAccepted /\ HttpIdle

\* ------------------------------------------------------------ producers
\* subscribe() returned an asynchronous producer; _start_subscription spawned
\* its observer.  What the producer does at each __anext__ (yield its next
\* value, end, raise) is the engine's: it is drawn when the observer resumes.
\* yielded: the values it has yielded.  state: active, exhausted (ended by
\* itself), failed (raised), stopped (aclose by a stop), torn (aclose by the
\* teardown).
\* obs, the observer task: wait (suspended in the producer's __anext__),
\* sending (suspended in send_json of a data message), finished, crashed (ended
\* with an unhandled error).
NewProducer(m) ==
    [id |-> m.id, yielded |-> 0, state |-> "active", obs |-> "wait"]

\* (mutant of Aclose) the close request is dropped
AcloseDropped(ps, p, how) == ps

\* asyncgen.aclose(): closes a producer that is still active, nothing otherwise
Aclose(ps, p, how) ==
    IF ps[p].state = "active" THEN [ps EXCEPT ![p].state = how] ELSE ps

\* ----------------------------------------------------- _handle_websocket_message
\* data["query"] on a payload that is None or has no query, or the context
\* callable raising: the error leaves _ws_on_start
WsOnStartRaises(m) == m.kind \in {"absent", "noquery", "ctx_raises"}

\* parse, get_operation_ast, validate
ParseAndValidate(m) ==
    CASE m.kind = "parse_error" -> ParseErrors
      [] m.kind = "invalid" -> ValidationErrors
      [] OTHER -> <<>>

\* operation and operation.operation == OperationType.SUBSCRIPTION
IsSubscription(m) == m.kind \in {"sub_err", "sub_ok"}

\* (mutant of FirstError) the last error is reported
LastError(errors) == errors[Len(errors)]

\* errors[0]
FirstError(errors) == errors[1]

ErrorMsg(id, errors) ==
    OutMsg(GQL_ERROR, id, 0, {"message"}, "-", <<ErrorFormatter(FirstError(errors))>>)

\* (mutant of StartSubscription) the new entry replaces the whole registry
StartSubscriptionReplacingRegistry(m, subs, ps) ==
    IF m.kind = "sub_err"
    THEN [errors |-> SubscribeErrors, subs |-> subs, prods |-> ps, out |-> <<>>]
    ELSE [errors |-> <<>>,
          subs |-> [i \in Ids |-> IF i = m.id THEN Len(ps) + 1 ELSE 0],
          prods |-> Append(ps, NewProducer(m)),
          out |-> <<>>]

\* subscribe(), then the registry entry and the observer task
StartSubscription(m, subs, ps) ==
    IF m.kind = "sub_err"
    THEN [errors |-> SubscribeErrors, subs |-> subs, prods |-> ps, out |-> <<>>]
    ELSE [errors |-> <<>>,
          subs |-> [subs EXCEPT ![m.id] = Len(ps) + 1],
          prods |-> Append(ps, NewProducer(m)),
          out |-> <<>>]

QueryPayloadMsg(m) ==
    IF m.kind = "q_async_err"
    THEN OutMsg(GQL_DATA, m.id, 0, {"data", "errors"}, "d", FormatAll(ExecuteAsyncErrors))
    ELSE OutMsg(GQL_DATA, m.id, 0, {"data"}, "d", <<>>)

\* (mutant of HandleQueryOverWs) no early return on an error result: the data
\* message is sent as well
HandleQueryOverWsNoReturn(m, subs, ps) ==
    [errors |-> IF m.kind = "q_sync_err" THEN ExecuteSyncErrors ELSE <<>>,
     subs |-> subs, prods |-> ps, out |-> <<QueryPayloadMsg(m)>>]

HandleQueryOverWs(m, subs, ps) ==
    IF m.kind = "q_sync_err"
    THEN [errors |-> ExecuteSyncErrors, subs |-> subs, prods |-> ps, out |-> <<>>]
    ELSE [errors |-> <<>>, subs |-> subs, prods |-> ps, out |-> <<QueryPayloadMsg(m)>>]

\* _ws_on_start once the query is read and the context built
WsOnStart(m, subs, ps) ==
    LET errors0 == ParseAndValidate(m)
        r == IF errors0 # <<>>
             THEN [errors |-> errors0, subs |-> subs, prods |-> ps, out |-> <<>>]
             ELSE IF IsSubscription(m)
                  THEN StartSubscription(m, subs, ps)
                  ELSE HandleQueryOverWs(m, subs, ps)
    IN  IF r.errors # <<>>
        THEN [r EXCEPT !.out = Append(r.out, ErrorMsg(m.id, r.errors))]
        ELSE r

\* (mutant of StopSubscription) the producer is closed, the entry is kept
StopWithoutDelete(id, subs, ps) ==
    IF subs[id] # 0
    THEN [subs |-> subs, prods |-> Aclose(ps, subs[id], "stopped")]
    ELSE [subs |-> subs, prods |-> ps]

\* (mutant of StopSubscription) a stop that finds no entry closes every producer
StopUnknownClosesAll(id, subs, ps) ==
    IF subs[id] # 0
    THEN [subs |-> [subs EXCEPT ![id] = 0], prods |-> Aclose(ps, subs[id], "stopped")]
    ELSE [subs |-> subs,
          prods |-> [p \in 1..Len(ps) |->
                        IF ps[p].state = "active"
                        THEN [ps[p] EXCEPT !.state = "stopped"] ELSE ps[p]]]

\* the stop branch: aclose the registered producer and delete the entry
StopSubscription(id, subs, ps) ==
    IF subs[id] # 0
    THEN [subs |-> [subs EXCEPT ![id] = 0], prods |-> Aclose(ps, subs[id], "stopped")]
    ELSE [subs |-> subs, prods |-> ps]

\* the while condition of _run_websocket_server, read after a handler returns
LoopNext(cs, as) == IF SocketOpen(cs, as) THEN "recv" ELSE "teardown"

\* ------------------------------------------------------ _run_websocket_server
\* history only: which of connection_init and start the client sent first
FirstOf(h, m) ==
    IF h # "none" THEN h
    ELSE IF m.type = GQL_CONNECTION_INIT THEN "init"
    ELSE IF m.type = GQL_START THEN "start"
    ELSE "none"

\* (mutant of Receive) the next message is received while one is being handled
ReceiveWhileHandling ==
    /\ pc \in {"recv", "handle"}
    /\ nrecv < MaxMsgs
    /\ \E m \in ClientMessages :
        /\ m.kind = "sub_ok" => Len(prods) < MaxProds
        /\ msg' = m
    /\ pc' = "handle"
    /\ nrecv' = nrecv + 1
    /\ handshake' = FirstOf(handshake, msg')
    /\ UNCHANGED <<raised, client_state, application_state, connection_params,
                   subscriptions, prods, sent, stopped, hvars>>

\* websocket.receive_json() returns a client message
Receive ==
    /\ pc = "recv"
    /\ nrecv < MaxMsgs
    /\ \E m \in ClientMessages :
        /\ m.kind = "sub_ok" => Len(prods) < MaxProds
        /\ msg' = m
    /\ pc' = "handle"
    /\ nrecv' = nrecv + 1
    /\ handshake' = FirstOf(handshake, msg')
    /\ UNCHANGED <<raised, client_state, application_state, connection_params,
                   subscriptions, prods, sent, stopped, hvars>>

\* websocket.receive_json() raises WebSocketDisconnect, which the loop swallows
ReceiveDisconnect ==
    /\ pc = "recv"
    /\ client_state' = DISCONNECTED
    /\ pc' = "teardown"
    /\ UNCHANGED <<raised, msg, nrecv, application_state, connection_params,
                   subscriptions, prods, sent, stopped,
                   handshake, hvars>>

\* (mutant of ConnectionParamsAfterInit) parameters once set are kept
ConnectionParamsFirstWins(old, payload) == IF old = NoParams THEN payload ELSE old

\* websocket.scope["connection_params"] = message.get("payload")
ConnectionParamsAfterInit(old, payload) == payload

OnConnectionInit ==
    /\ pc = "handle"
    /\ msg.type = GQL_CONNECTION_INIT
    /\ connection_params' = ConnectionParamsAfterInit(connection_params, msg.kind)
    /\ sent' = Append(sent, AckMsg)
    /\ pc' = LoopNext(client_state, application_state)
    /\ msg' = NoMsg
    /\ UNCHANGED <<raised, nrecv, client_state, application_state, subscriptions,
                   prods, stopped,
                   handshake, hvars>>

\* (mutant of OnConnectionTerminate) the socket is not closed
OnConnectionTerminateIgnored ==
    /\ pc = "handle"
    /\ msg.type = GQL_CONNECTION_TERMINATE
    /\ pc' = LoopNext(client_state, application_state)
    /\ msg' = NoMsg
    /\ UNCHANGED <<raised, nrecv, client_state, application_state, connection_params,
                   subscriptions, prods, sent, stopped, handshake, hvars>>

\* websocket.close(): the application side of the socket is closed
OnConnectionTerminate ==
    /\ pc = "handle"
    /\ msg.type = GQL_CONNECTION_TERMINATE
    /\ application_state' = DISCONNECTED
    /\ pc' = LoopNext(client_state, application_state')
    /\ msg' = NoMsg
    /\ UNCHANGED <<raised, nrecv, client_state, connection_params, subscriptions,
                   prods, sent, stopped,
                   handshake, hvars>>

OnStart ==
    /\ pc = "handle"
    /\ msg.type = GQL_START
    /\ IF WsOnStartRaises(msg)
       THEN /\ raised' = TRUE
            /\ pc' = "teardown"
            /\ UNCHANGED <<subscriptions, prods, sent, stopped>>
       ELSE LET r == WsOnStart(msg, subscriptions, prods) IN
            /\ subscriptions' = r.subs
            /\ prods' = r.prods
            /\ sent' = sent \o r.out
            /\ pc' = LoopNext(client_state, application_state)
            /\ UNCHANGED raised
    /\ msg' = NoMsg
    /\ UNCHANGED <<nrecv, client_state, application_state, connection_params, stopped,
                   handshake, hvars>>

OnStop ==
    /\ pc = "handle"
    /\ msg.type = GQL_STOP
    /\ LET r == StopSubscription(msg.id, subscriptions, prods) IN
        /\ subscriptions' = r.subs
        /\ prods' = r.prods
    /\ stopped' = stopped \cup {subscriptions[msg.id]}
    /\ pc' = LoopNext(client_state, application_state)
    /\ msg' = NoMsg
    /\ UNCHANGED <<raised, nrecv, client_state, application_state, connection_params,
                   sent, handshake, hvars>>

\* (mutant of OnOtherType) a message of another type closes the socket
OnOtherTypeCloses ==
    /\ pc = "handle"
    /\ msg.type \notin {GQL_CONNECTION_INIT, GQL_CONNECTION_TERMINATE, GQL_START, GQL_STOP}
    /\ application_state' = DISCONNECTED
    /\ pc' = LoopNext(client_state, application_state')
    /\ msg' = NoMsg
    /\ UNCHANGED <<raised, nrecv, client_state, connection_params, subscriptions,
                   prods, sent, stopped, handshake, hvars>>

\* no branch of the if/elif chain matches
OnOtherType ==
    /\ pc = "handle"
    /\ msg.type \notin {GQL_CONNECTION_INIT, GQL_CONNECTION_TERMINATE, GQL_START, GQL_STOP}
    /\ pc' = LoopNext(client_state, application_state)
    /\ msg' = NoMsg
    /\ UNCHANGED <<raised, nrecv, client_state, application_state, connection_params,
                   subscriptions, prods, sent, stopped,
                   handshake, hvars>>

Registered(subs) == {subs[i] : i \in Ids} \ {0}

\* (mutant of TeardownProds) the finally block closes nothing
TeardownProdsSkipped(subs, ps) == ps

TeardownProds(subs, ps) ==
    [p \in 1..Len(ps) |->
        IF p \in Registered(subs) /\ ps[p].state = "active"
        THEN [ps[p] EXCEPT !.state = "torn"]
        ELSE ps[p]]

\* the finally block: gather the aclose() of every registered producer
Teardown ==
    /\ pc = "teardown"
    /\ prods' = TeardownProds(subscriptions, prods)
    /\ pc' = "done"
    /\ UNCHANGED <<raised, msg, nrecv, client_state, application_state,
                   connection_params, subscriptions, sent, stopped,
                   handshake, hvars>>

\* ------------------------------------------------------ _observe_subscription
\* The results a producer yields, in order: the n-th has n - 1 as its data, and
\* the second one comes with the errors of a field that failed to resolve.
FieldErrors == <<"f1">>

ProducedResult(n) == [data |-> n, errors |-> IF n = 1 THEN FieldErrors ELSE <<>>]

\* (mutant of DataMsg) the first two values leave in each other's place
DataMsgSwapped(id, p, res) ==
    OutMsg(GQL_DATA, id, p, {"data"},
           IF res.data < 2 THEN 1 - res.data ELSE res.data, <<>>)

\* payload = {"data": result.data}
DataMsg(id, p, res) == OutMsg(GQL_DATA, id, p, {"data"}, res.data, <<>>)

\* (mutant of ObserverErrorMsg) the payload has a data key beside the errors
ObserverErrorMsgWithData(id, p, error) ==
    OutMsg(GQL_DATA, id, p, {"data", "errors"}, "-", <<ErrorFormatter(error)>>)

\* the except branch: the error wrapped, formatted and sent alone
ObserverErrorMsg(id, p, error) ==
    OutMsg(GQL_DATA, id, p, {"errors"}, "-", <<ErrorFormatter(error)>>)

\* (mutant of CompleteIfOpen) the complete message is forgotten
CompleteForgotten(id, p, cs, as) == <<>>

\* (mutant of CompleteIfOpen) the complete message is sent twice
CompleteTwice(id, p, cs, as) ==
    IF SocketOpen(cs, as) THEN <<CompleteMsg(id, p), CompleteMsg(id, p)>> ELSE <<>>

\* the trailing if: complete only while both sides are connected
CompleteIfOpen(id, p, cs, as) ==
    IF SocketOpen(cs, as) THEN <<CompleteMsg(id, p)>> ELSE <<>>

\* the except branch and what follows it; o is what its send_json does
\* (mutant of ObserveExcept) a failing observer closes every other producer
ObserveExceptClosingAll(p, error, o, state, y) ==
    /\ sent' = (Append(sent, ObserverErrorMsg(prods[p].id, p, error))
                \o CompleteIfOpen(prods[p].id, p, client_state, application_state))
    /\ prods' = [q \in 1..Len(prods) |->
                    IF q = p
                    THEN [prods[q] EXCEPT !.obs = "finished", !.state = state,
                                          !.yielded = y]
                    ELSE [prods[q] EXCEPT !.state = "torn"]]

\* y: the values the producer has yielded by then
ObserveExcept(p, error, o, state, y) ==
    IF o = "ok"
    THEN /\ sent' = (Append(sent, ObserverErrorMsg(prods[p].id, p, error))
                     \o CompleteIfOpen(prods[p].id, p, client_state, application_state))
         /\ prods' = [prods EXCEPT ![p].obs = "finished", ![p].state = state,
                                   ![p].yielded = y]
    ELSE /\ sent' = sent
         /\ prods' = [prods EXCEPT ![p].obs = "crashed", ![p].state = state,
                                   ![p].yielded = y]

\* the loop ends (StopAsyncIteration): the trailing if, then the task ends
ObserveEnd(p, state) ==
    /\ sent' = sent \o CompleteIfOpen(prods[p].id, p, client_state, application_state)
    /\ prods' = [prods EXCEPT ![p].obs = "finished", ![p].state = state]

RECURSIVE TotalYielded(_)
TotalYielded(ps) ==
    IF ps = <<>> THEN 0 ELSE Head(ps).yielded + TotalYielded(Tail(ps))

\* the observer resumes from the producer's __anext__
ObserveNext(p) ==
    /\ prods[p].obs = "wait"
    /\ \/ /\ prods[p].state = "active"
          /\ TotalYielded(prods) < MaxVals
          /\ \E o1 \in SendOutcomes(client_state, application_state),
                o2 \in SendOutcomes(client_state, application_state) :
                IF o1 = "ok"
                THEN /\ sent' = Append(sent, DataMsg(prods[p].id, p,
                                                  ProducedResult(prods[p].yielded)))
                     /\ prods' = [prods EXCEPT ![p].yielded = @ + 1,
                                               ![p].obs = "sending"]
                ELSE ObserveExcept(p, "send", o2, "active", prods[p].yielded + 1)
       \/ /\ prods[p].state = "active"
          /\ \E o \in SendOutcomes(client_state, application_state) :
                ObserveExcept(p, "producer", o, "failed", prods[p].yielded)
       \/ /\ prods[p].state = "active"
          /\ ObserveEnd(p, "exhausted")
       \/ /\ prods[p].state \in {"stopped", "torn"}
          /\ ObserveEnd(p, prods[p].state)
    /\ UNCHANGED <<pc, raised, msg, nrecv, client_state, application_state,
                   connection_params, subscriptions, stopped,
                   handshake, hvars>>

\* the awaited send_json of a data message returns: back to __anext__
ObserveSent(p) ==
    /\ prods[p].obs = "sending"
    /\ prods' = [prods EXCEPT ![p].obs = "wait"]
    /\ UNCHANGED <<pc, raised, msg, nrecv, client_state, application_state,
                   connection_params, subscriptions, sent, stopped,
                   handshake, hvars>>

Next ==
    \/ Receive
    \/ ReceiveDisconnect
    \/ OnConnectionInit
    \/ OnConnectionTerminate
    \/ OnStart
    \/ OnStop
    \/ OnOtherType
    \/ Teardown
    \/ \E p \in 1..Len(prods) : ObserveNext(p)
    \/ \E p \in 1..Len(prods) : ObserveSent(p)

Spec == Init /\ [][Next]_vars

TypeOK ==
    /\ pc \in {"recv", "handle", "teardown", "done"}
    /\ raised \in BOOLEAN
    /\ nrecv \in 0..MaxMsgs
    /\ Len(prods) <= MaxProds
    /\ \A i \in Ids : subscriptions[i] \in 0..Len(prods)
    /\ stopped \subseteq 0..Len(prods)
    /\ handshake \in {"none", "init", "start"}

\* =================================================================== HTTP
\* One HTTP request through GraphQLApp.__call__: method dispatch, operation
\* extraction (JSON body or multipart form with file injection), execution.
\* The engine, the request parsers and the context callable are collaborators
\* whose answers are inputs.

MaxErrors == 2    \* errors the engine reports for one operation

\* ------------------------------------------------------------ JSON values
\* A JSON value is a tagged record: obj (v: a function on its keys), arr (v: a
\* sequence), str (len: its length), num, null.  file is an UploadFile graft.
Null == [t |-> "null"]
Num == [t |-> "num"]
Str(n) == [t |-> "str", len |-> n]
Obj(f) == [t |-> "obj", v |-> f]
Arr(q) == [t |-> "arr", v |-> q]
File(name) == [t |-> "file", name |-> name]

\* an exception raised where a value was expected
Raise(exc) == [t |-> "raise", exc |-> exc]

\* ------------------------------------------------------------- text atoms
\* A header value or a dotted path is a sequence of atoms (runs of characters
\* holding no separator); the separators ";" and "." are atoms of their own.
RECURSIVE Split(_, _)
\* str.split(sep): the runs between the separators, in order
Split(text, sep) ==
    IF \A k \in 1..Len(text) : text[k] # sep
    THEN <<text>>
    ELSE LET k == CHOOSE i \in 1..Len(text) :
                      text[i] = sep /\ \A j \in 1..i - 1 : text[j] # sep
         IN  <<SubSeq(text, 1, k - 1)>> \o Split(SubSeq(text, k + 1, Len(text)), sep)

\* the string a run of atoms spells (the runs used here hold one atom at most)
Spell(run) == IF run = <<>> THEN "" ELSE run[1]

Digits == {"0", "1", "2"}

\* int(key) of the try block: the number a segment spells, the segment itself
\* where int() raises ValueError
IntOrKey(key) ==
    CASE key = "0" -> 0
      [] key = "1" -> 1
      [] key = "2" -> 2
      [] OTHER -> key

\* ----------------------------------------------- _inject_file_to_operations
\* ops_tree[key]: the value, or the KeyError, IndexError or TypeError raised
GetItem(node, key) ==
    CASE node.t = "obj" ->
            IF key \notin Digits /\ key \in DOMAIN node.v
            THEN node.v[key] ELSE Raise("KeyError")
      [] node.t = "arr" ->
            IF key \notin Digits THEN Raise("TypeError")
            ELSE IF IntOrKey(key) < Len(node.v)
                 THEN node.v[IntOrKey(key) + 1] ELSE Raise("IndexError")
      [] node.t = "str" ->
            IF key \notin Digits THEN Raise("TypeError")
            ELSE IF IntOrKey(key) < node.len THEN Str(1) ELSE Raise("IndexError")
      [] OTHER -> Raise("TypeError")

\* (mutant of SetItem) the assignment is lost
SetItemDropped(node, key, value) == node

\* ops_tree[key] = value, on an object or an array that has the key
SetItem(node, key, value) ==
    IF node.t = "obj"
    THEN Obj([node.v EXCEPT ![key] = value])
    ELSE Arr([node.v EXCEPT ![IntOrKey(key) + 1] = value])

RECURSIVE InjectFileOverwriting(_, _, _)
\* (mutant of InjectFileToOperations) the value at the path is replaced
\* whatever it is
InjectFileOverwriting(ops_tree, file, path) ==
    LET key == path[1]
        item == GetItem(ops_tree, key)
    IN  IF item.t = "raise" THEN item
        ELSE IF Len(path) = 1
             THEN IF ops_tree.t \in {"obj", "arr"}
                  THEN SetItem(ops_tree, key, file) ELSE ops_tree
             ELSE LET sub == InjectFileOverwriting(item, file, Tail(path))
                  IN  IF sub.t = "raise" THEN sub
                      ELSE IF ops_tree.t \in {"obj", "arr"}
                           THEN SetItem(ops_tree, key, sub)
                           ELSE ops_tree

RECURSIVE InjectFileToOperations(_, _, _)
\* path: the segments of a dotted path, as strings.  Gives the tree after the
\* call, or the exception that left it.
InjectFileToOperations(ops_tree, file, path) ==
    LET key == path[1]
        item == GetItem(ops_tree, key)
    IN  IF item.t = "raise" THEN item
        ELSE IF Len(path) = 1
             THEN IF item.t = "null" THEN SetItem(ops_tree, key, file) ELSE ops_tree
             ELSE LET sub == InjectFileToOperations(item, file, Tail(path))
                  IN  IF sub.t = "raise" THEN sub
                      ELSE IF ops_tree.t \in {"obj", "arr"}
                           THEN SetItem(ops_tree, key, sub)
                           ELSE ops_tree


\* ------------------------------------------------------------- requests
\* Content-Type header values; <<>> is the header missing (get's default "")
ContentTypes ==
    {<<>>,
     <<"application/json">>,
     <<"application/json", ";", " charset=utf-8">>,
     <<"Application/JSON">>,
     <<"multipart/form-data">>,
     <<"multipart/form-data", ";", " boundary=x">>,
     <<"Multipart/Form-Data", ";", " boundary=x">>,
     <<"text/plain">>}

\* operation documents
OpFile == Obj([query |-> Str(2), variables |-> Obj([file |-> Null])])
OpFiles == Obj([query |-> Str(2), variables |-> Obj([files |-> Arr(<<Null, Null>>)])])
OpFilled == Obj([query |-> Str(2), variables |-> Obj([file |-> Str(2)])])
OpNoVariables == Obj([query |-> Str(2)])
OpNoQuery == Obj([variables |-> Obj([file |-> Null])])
OpBatch == Arr(<<OpFile>>)

\* a form field that is missing, or whose text is not JSON
Absent == [t |-> "absent"]
BadJson == [t |-> "badjson"]

\* dotted paths, as the map spells them
PathFile == <<"variables", ".", "file">>
PathFiles0 == <<"variables", ".", "files", ".", "0">>
PathFiles1 == <<"variables", ".", "files", ".", "1">>
PathFiles2 == <<"variables", ".", "files", ".", "2">>
PathBatchFile == <<"0", ".", "variables", ".", "file">>
PathMissing == <<"variables", ".", "missing">>
PathBelowFile == <<"variables", ".", "file", ".", "x">>
PathVariables == <<"variables">>

\* the map field as a JSON object: its (name, paths) items in document order
Map(items) == [t |-> "map", v |-> items]
Item(name, paths) == [name |-> name, paths |-> paths]

Maps ==
    {Map(<<>>),
     Map(<<Item("0", <<PathFile>>)>>),
     Map(<<Item("0", <<PathFile, PathFile>>)>>),
     Map(<<Item("0", <<PathFile>>), Item("1", <<PathFile>>)>>),
     Map(<<Item("0", <<PathFiles0, PathFiles1>>)>>),
     Map(<<Item("0", <<PathFiles0>>), Item("1", <<PathFiles1>>)>>),
     Map(<<Item("0", <<PathBatchFile>>)>>),
     Map(<<Item("invalid_name", <<PathFile>>)>>),
     Map(<<Item("0", <<PathFile>>), Item("invalid_name", <<>>)>>),
     Map(<<Item("0", <<PathMissing>>)>>),
     Map(<<Item("0", <<PathFiles2>>)>>),
     Map(<<Item("0", <<PathBelowFile>>)>>),
     Map(<<Item("0", <<PathVariables>>)>>)}

OperationsFields ==
    {Absent, BadJson, Num, OpFile, OpFiles, OpFilled, OpNoQuery, OpBatch}

MapFields == {Absent, BadJson, Arr(<<>>)} \cup Maps

\* the names of the uploaded parts
Uploads == {{"0"}, {"0", "1"}}

\* request bodies: a JSON text, a multipart form, or neither
Bodies ==
    {[kind |-> "json", value |-> v] :
        v \in {Num, Obj(<<>>), OpNoVariables, OpFilled, OpNoQuery, OpBatch, Arr(<<>>)}}
    \cup {[kind |-> "form", operations |-> o, map |-> m, files |-> f] :
            o \in OperationsFields, m \in MapFields, f \in Uploads}
    \cup {[kind |-> "garbage"]}

Requests ==
    {[method |-> "POST", content_type |-> c, body |-> b] :
        c \in ContentTypes, b \in Bodies}
    \cup {[method |-> m, content_type |-> <<>>, body |-> [kind |-> "garbage"]] :
            m \in {"GET", "PUT"}}

\* context_value: not configured (the default context is built), or a callable
\* that returns a context or raises.  on_get: None, a handler, an async handler
Apps ==
    {[context_value |-> c, on_get |-> g] :
        c \in {"default", "callable", "callable_raises"},
        g \in {"none", "sync", "async"}}


\* ------------------------------------------------------------- responses
JSONResponse(body, status_code) ==
    [status |-> status_code, json |-> TRUE, keys |-> DOMAIN body, body |-> body]

\* Response(status_code=...), and the response an on_get handler returns
Response(status_code) ==
    [status |-> status_code, json |-> FALSE, keys |-> {}, body |-> <<>>]

\* JSONResponse({"errors": [message]}, status_code=400)
BadRequest(message) == JSONResponse([errors |-> <<message>>], 400)

\* what graphql() may return: data, and up to MaxErrors errors, named 1, 2, ...
EngineResults ==
    {[data |-> d, errors |-> [i \in 1..n |-> i]] :
        d \in {"null", "d"}, n \in 0..MaxErrors}

\* ------------------------------------------------ _get_operation_from_request
\* (mutant of Dispatch) every unknown content type is taken as JSON
DispatchDefaultJson(content_type) ==
    IF content_type = <<"multipart/form-data">> THEN "multipart" ELSE "json"

\* the if/elif chain on content_type
Dispatch(content_type) ==
    IF content_type = <<"application/json">> THEN "json"
    ELSE IF content_type = <<"multipart/form-data">> THEN "multipart"
    ELSE "other"

\* json.loads of a form field: TypeError on a missing field (None), ValueError
\* on text that is not JSON
JsonLoads(field) ==
    CASE field.t = "absent" -> Raise("TypeError")
      [] field.t = "badjson" -> Raise("ValueError")
      [] OTHER -> field

\* request.form(): the fields of a multipart body; on a body that is no
\* multipart form the parser raises or finds no field
FormOutcomes(body) ==
    IF body.kind = "form"
    THEN {[t |-> "form", operations |-> body.operations, map |-> body.map,
           files |-> body.files]}
    ELSE {Raise("MultiPartException"),
          [t |-> "form", operations |-> Absent, map |-> Absent, files |-> {}]}

RECURSIVE NamePathPairs(_)
\* the two for loops: every (name, path) of the map, in order
NamePathPairs(items) ==
    IF items = <<>> THEN <<>>
    ELSE [k \in 1..Len(Head(items).paths) |->
             [name |-> Head(items).name, path |-> Head(items).paths[k]]]
         \o NamePathPairs(Tail(items))

\* tuple(path.split(".")), each segment as the string it spells
PathTuple(path) ==
    LET runs == Split(path, ".") IN [k \in 1..Len(runs) |-> Spell(runs[k])]

\* _get_operation_from_multipart up to its loops: the ValueError raised, or
\* operations and the injections to make
ParseMultipart(form) ==
    IF form.t = "raise"
    THEN Raise("Request body is not a valid multipart/form-data")
    ELSE LET ops == JsonLoads(form.operations)
             name_path_map == JsonLoads(form.map)
         IN  IF ops.t = "raise"
             THEN Raise("'operations' must be a valid JSON")
             ELSE IF ops.t \notin {"obj", "arr"}
             THEN Raise("'operations' field must be an Object or an Array")
             ELSE IF name_path_map.t = "raise"
             THEN Raise("'map' field must be a valid JSON")
             ELSE IF name_path_map.t # "map"
             THEN Raise("'map' field must be an Object")
             ELSE [t |-> "parsed", operations |-> ops,
                   todo |-> NamePathPairs(name_path_map.v)]


\* ---------------------------------------------------------------- actions
HttpInit ==
    /\ WsAccepted
    /\ request \in Requests
    /\ app \in Apps
    /\ hpc = "call"
    /\ operations = NoOperations
    /\ todo = <<>>
    /\ response = NoResponse
    /\ hraised = NoError
    /\ engine_calls = 0
    /\ result = NoResult

\* _get_on_get: None without a handler, else the handler's response, awaited
\* when it is awaitable
\* the response an on_get handler makes
HandlerResponse == [status |-> 200, json |-> FALSE, keys |-> {}, body |-> <<"on_get">>]

\* a coroutine that gives v when awaited
Awaitable(v) == [awaitable |-> TRUE, value |-> v]

IsAwaitable(r) == "awaitable" \in DOMAIN r

\* handler(request): the response, or an awaitable of it from an async handler
OnGetReturn(a) ==
    IF a.on_get = "async" THEN Awaitable(HandlerResponse) ELSE HandlerResponse

\* (mutant of GetOnGet) what the handler returns is passed on as it is
GetOnGetNotAwaited(a) ==
    IF a.on_get = "none" THEN NoResponse ELSE OnGetReturn(a)

GetOnGet(a) ==
    IF a.on_get = "none" THEN NoResponse
    ELSE LET r == OnGetReturn(a) IN IF IsAwaitable(r) THEN r.value ELSE r

\* __call__ on an http scope: the dispatch on request.method
Call ==
    /\ hpc = "call"
    /\ IF request.method = "POST"
       THEN hpc' = "extract" /\ response' = response
       ELSE LET r == IF request.method = "GET" THEN GetOnGet(app) ELSE NoResponse
            IN  /\ response' = IF r = NoResponse THEN Response(405) ELSE r
                /\ hpc' = "done"
    /\ UNCHANGED <<request, operations, todo, hraised, engine_calls, result, app, vars>>

\* _get_operation_from_request, up to the injection loops of the multipart
\* branch; a ValueError is answered by _handle_http_request with 400
GetOperationFromRequest ==
    /\ hpc = "extract"
    /\ LET content_type == Split(request.content_type, ";")[1]
           kind == Dispatch(content_type)
       IN  \E form \in FormOutcomes(request.body) :
             LET r == CASE kind = "json" ->
                            IF request.body.kind = "json"
                            THEN [t |-> "parsed", operations |-> request.body.value,
                                  todo |-> <<>>]
                            ELSE Raise("Request body is not a valid JSON")
                        [] kind = "multipart" -> ParseMultipart(form)
                        [] OTHER ->
                            Raise("Content-type must be application/json or multipart/form-data")
             IN  IF r.t = "raise"
                 THEN /\ response' = BadRequest(r.exc)
                      /\ hpc' = "done"
                      /\ UNCHANGED <<operations, todo>>
                 ELSE /\ operations' = r.operations
                      /\ todo' = r.todo
                      /\ hpc' = IF kind = "multipart" THEN "inject" ELSE "batch"
                      /\ UNCHANGED response
    /\ UNCHANGED <<request, hraised, engine_calls, result, app, vars>>

\* one turn of the loops of _get_operation_from_multipart: files[name], then
\* _inject_file_to_operations; an error of either leaves __call__ uncaught
InjectNext ==
    /\ hpc = "inject"
    /\ todo # <<>>
    /\ LET name == Head(todo).name
           r == IF name \in request.body.files
                THEN InjectFileToOperations(operations, File(name),
                                            PathTuple(Head(todo).path))
                ELSE Raise("KeyError")
       IN  IF r.t = "raise"
           THEN /\ hraised' = r.exc
                /\ hpc' = "done"
                /\ UNCHANGED <<operations, todo>>
           ELSE /\ operations' = r
                /\ todo' = Tail(todo)
                /\ UNCHANGED <<hraised, hpc>>
    /\ UNCHANGED <<request, response, engine_calls, result, app, vars>>

\* the loops are over: return operations
ReturnOperations ==
    /\ hpc = "inject"
    /\ todo = <<>>
    /\ hpc' = "batch"
    /\ UNCHANGED <<request, operations, todo, response, hraised, engine_calls, result,
                   app, vars>>

\* (mutant of IsBatch) no value is taken for a batch
IsBatchNever(ops) == FALSE

\* isinstance(operations, list)
IsBatch(ops) == ops.t = "arr"

\* operation["query"]: the error it raises, if any
QueryLookup(operation) ==
    IF operation.t = "obj"
    THEN IF "query" \in DOMAIN operation.v THEN NoError ELSE "KeyError"
    ELSE "TypeError"

\* the response dictionary built from the result
ResponseBody(r) ==
    IF r.errors # <<>>
    THEN [data |-> r.data, errors |-> FormatAll(r.errors)]
    ELSE [data |-> r.data]

\* _handle_http_request once the operations are extracted: the batch check,
\* the query lookup, the context, graphql(), the response
HandleOperations ==
    /\ hpc = "batch"
    /\ hpc' = "done"
    /\ IF IsBatch(operations)
       THEN /\ response' = BadRequest("This server does not support batching")
            /\ UNCHANGED <<hraised, engine_calls, result>>
       ELSE IF QueryLookup(operations) # NoError
       THEN /\ hraised' = QueryLookup(operations)
            /\ UNCHANGED <<response, engine_calls, result>>
       ELSE IF app.context_value = "callable_raises"
       THEN /\ hraised' = "ContextError"
            /\ UNCHANGED <<response, engine_calls, result>>
       ELSE /\ result' \in EngineResults
            /\ engine_calls' = engine_calls + 1
            /\ response' = JSONResponse(ResponseBody(result'), 200)
            /\ UNCHANGED hraised
    /\ UNCHANGED <<request, operations, todo, app, vars>>

HttpNext ==
    \/ Call
    \/ GetOperationFromRequest
    \/ InjectNext
    \/ ReturnOperations
    \/ HandleOperations

HttpSpec == HttpInit /\ [][HttpNext]_hvars


\* ================================================================ claims
Producers == 1..Len(prods)

IsOpen == SocketOpen(client_state, application_state)

\* the messages of subscription p among those of s, in order
SentByIn(s, p) == SelectSeq(s, LAMBDA m : m.prod = p)

SentBy(p) == SentByIn(sent, p)

\* the messages tagged id among those sent
Tagged(id) == SelectSeq(sent, LAMBDA m : m.id = id)

\* what a sequence t that extends s has more than s
NewIn(s, t) == SubSeq(t, Len(s) + 1, Len(t))

NewBy(p) == NewIn(SentByIn(sent, p), SentByIn(sent', p))

ExpData(id, p, value) ==
    [type |-> "data", id |-> id, prod |-> p, keys |-> {"data"}, data |-> value,
     errors |-> <<>>]

ExpComplete(id, p) ==
    [type |-> "complete", id |-> id, prod |-> p, keys |-> {}, data |-> "-",
     errors |-> <<>>]

ExpError(id, e) ==
    [type |-> "error", id |-> id, prod |-> 0, keys |-> {"message"}, data |-> "-",
     errors |-> <<[message |-> e]>>]

ExpAck ==
    [type |-> "connection_ack", id |-> NoId, prod |-> 0, keys |-> {}, data |-> "-",
     errors |-> <<>>]

\* the values p has yielded, as data messages in the producer's order
DataOf(p) == [i \in 1..prods[p].yielded |-> ExpData(prods[p].id, p, i - 1)]

HasComplete(p) == \E k \in 1..Len(SentBy(p)) : SentBy(p)[k].type = "complete"

\* id is used by subscription p alone: no other start carried it
OnlyUse(p) ==
    /\ \A q \in Producers \ {p} : prods[q].id # prods[p].id
    /\ \A k \in 1..Len(sent) : sent[k].id = prods[p].id => sent[k].prod = p

\* the step is the message loop finishing the handler of a message of this type
Handles(type) == pc = "handle" /\ msg.type = type /\ pc' # "handle"

\* C1: once _run_websocket_server has returned, no producer started on the
\* connection is still active.
C1_NoProducerOutlivesConnection ==
    pc = "done" => \A p \in Producers : prods[p].state # "active"

\* C2: a subscription whose producer yields N values and ends, on a socket that
\* stays open and with no stop for it, has sent its N data messages in the
\* producer's order and then one complete, all tagged with its id, and nothing
\* after; while it runs it has sent exactly the values yielded so far.  Where
\* its id is used by this start alone, these are all the messages tagged with it.
C2_DataThenComplete ==
    \A p \in Producers :
        (IsOpen /\ p \notin stopped) =>
            /\ prods[p].state = "active" =>
                /\ prods[p].obs \in {"wait", "sending"}
                /\ SentBy(p) = DataOf(p)
            /\ prods[p].state = "exhausted" =>
                /\ prods[p].obs = "finished"
                /\ SentBy(p) = DataOf(p) \o <<ExpComplete(prods[p].id, p)>>
                /\ OnlyUse(p) => Tagged(prods[p].id) = SentBy(p)

C2_Witness ==
    \E p \in Producers :
        /\ IsOpen
        /\ p \notin stopped
        /\ prods[p].state = "exhausted"
        /\ prods[p].yielded = 2
        /\ OnlyUse(p)
        /\ Len(Tagged(prods[p].id)) = 3

\* C3: once a stop addressed to a subscription has been handled, that
\* subscription sends no further data message: at most one complete follows,
\* and nothing after a complete.
C3_NoDataAfterStop ==
    [][\A p \in Producers :
          p \in stopped =>
              /\ Len(NewBy(p)) <= 1
              /\ \A k \in 1..Len(NewBy(p)) : NewBy(p)[k] = ExpComplete(prods[p].id, p)
              /\ HasComplete(p) => NewBy(p) = <<>>]_vars

C3_Witness ==
    \E p \in stopped \cap Producers :
        /\ prods[p].state = "stopped"
        /\ prods[p].obs = "finished"
        /\ prods[p].yielded >= 1
        /\ SentBy(p) = DataOf(p) \o <<ExpComplete(prods[p].id, p)>>

\* C4: handling a start that fails at parsing, at validation or at subscribe
\* sends exactly one error message for its id, carrying the formatted first
\* error, and nothing else; the registry gets no entry and no observer starts.
C4_RejectedStartSendsOneError ==
    [][(Handles(GQL_START) /\ msg.kind \in {"parse_error", "invalid", "sub_err"}) =>
          /\ sent' = Append(sent,
                 ExpError(msg.id,
                     CASE msg.kind = "parse_error" -> ParseErrors[1]
                       [] msg.kind = "invalid" -> ValidationErrors[1]
                       [] msg.kind = "sub_err" -> SubscribeErrors[1]))
          /\ subscriptions' = subscriptions
          /\ prods' = prods]_vars

C4_Witness ==
    /\ prods = <<>>
    /\ \E k \in 1..Len(sent) : sent[k] = ExpError("q1", "v1")
    /\ \E k \in 1..Len(sent) : sent[k] = ExpError("q2", "s1")

\* C5: a context callable that raises during a start aborts that operation
\* only: the loop goes on receiving, no error leaves it, and the registry and
\* the live producers are untouched.
C5_ContextFailureIsLocal ==
    [][(Handles(GQL_START) /\ msg.kind = "ctx_raises") =>
          /\ pc' = "recv"
          /\ ~raised'
          /\ subscriptions' = subscriptions
          /\ prods' = prods]_vars

\* C6: the failure of one subscription (its producer raising, or its start
\* being rejected) changes nothing of the others: the step leaves every other
\* producer, every observer and the registry as they were and sends only that
\* subscription's messages; and beside a failed subscription, one that runs to
\* its end on an open socket has still sent all its data and then its complete.
C6_FailureIsLocal ==
    /\ [][/\ \A p \in Producers :
                (prods[p].state = "active" /\ prods'[p].state = "failed") =>
                    /\ \A q \in Producers \ {p} : prods'[q] = prods[q]
                    /\ Len(prods') = Len(prods)
                    /\ subscriptions' = subscriptions
                    /\ pc' = pc
                    /\ \A q \in Producers \ {p} : NewBy(q) = <<>>
          /\ (Handles(GQL_START) /\ msg.kind \in {"parse_error", "invalid", "sub_err"}) =>
                    /\ prods' = prods
                    /\ subscriptions' = subscriptions
                    /\ pc' = "recv"
                    /\ \A q \in Producers : NewBy(q) = <<>>]_vars
    /\ [](\A q \in Producers :
            ((\E p \in Producers \ {q} : prods[p].state = "failed")
                /\ IsOpen /\ q \notin stopped /\ prods[q].state = "exhausted") =>
                    SentBy(q) = DataOf(q) \o <<ExpComplete(prods[q].id, q)>>)

C6_Witness ==
    \E p, q \in Producers :
        /\ p # q
        /\ IsOpen
        /\ prods[p].state = "failed"
        /\ prods[q].state = "exhausted"
        /\ prods[q].yielded >= 1
        /\ subscriptions[prods[q].id] = q
        /\ HasComplete(q)

\* C7 (as claimed): an id is a key of the registry only while its producer is
\* active.
C7_RegisteredOnlyWhileActive ==
    \A i \in Ids :
        subscriptions[i] # 0 => prods[subscriptions[i]].state = "active"

\* C7 (amended): an id is a key of the registry from the subscription start
\* that registers it until a stop for it is handled, which removes it; neither
\* the producer's end nor the teardown removes it.  So the producer under a key
\* carries that key's id and is active, ended by itself, or closed by the
\* teardown, and a producer closed by a stop is under no key.
C7_RegisteredUntilStop ==
    /\ \A i \in Ids :
          subscriptions[i] # 0 =>
              /\ prods[subscriptions[i]].id = i
              /\ subscriptions[i] \notin stopped
              /\ prods[subscriptions[i]].state \in
                    {"active", "exhausted", "failed", "torn"}
              /\ prods[subscriptions[i]].state = "torn" => pc = "done"
    /\ \A p \in Producers :
          prods[p].state = "stopped" =>
              /\ p \in stopped
              /\ subscriptions[prods[p].id] # p

C7_Witness ==
    /\ pc = "recv"
    /\ IsOpen
    /\ \E i \in Ids :
          /\ subscriptions[i] # 0
          /\ prods[subscriptions[i]].state = "exhausted"
          /\ HasComplete(subscriptions[i])

\* C8: after the socket has disconnected no observer ends with an unhandled
\* error and the handler returns without one; once the teardown has completed
\* no observer obtains a value, sends or fails any more (an observer whose
\* producer the teardown closed may still finish silently).
C8_DisconnectIsClean ==
    /\ [](client_state = DISCONNECTED =>
            /\ ~raised
            /\ \A p \in Producers : prods[p].obs # "crashed")
    /\ [][(pc = "done" /\ client_state = DISCONNECTED) =>
            /\ sent' = sent
            /\ \A p \in Producers :
                  /\ prods'[p].yielded = prods[p].yielded
                  /\ prods'[p].obs # "crashed"
                  /\ prods'[p].state \in {prods[p].state} \cup {"torn"}]_vars

\* C9: handling a start that carries a valid query or mutation sends exactly
\* one message for its id: an error when execute returns an error result at
\* once, else a data message, with errors beside the data when the awaited
\* result has errors; no complete, no registry entry, no observer.
C9_QueryOverWsSendsOneMessage ==
    [][(Handles(GQL_START)
            /\ msg.kind \in {"q_sync_err", "q_sync_ok", "q_async_ok", "q_async_err"}) =>
          /\ sent' = Append(sent,
                 CASE msg.kind = "q_sync_err" -> ExpError(msg.id, ExecuteSyncErrors[1])
                   [] msg.kind = "q_async_err" ->
                        [type |-> "data", id |-> msg.id, prod |-> 0,
                         keys |-> {"data", "errors"}, data |-> "d",
                         errors |-> <<[message |-> ExecuteAsyncErrors[1]],
                                      [message |-> ExecuteAsyncErrors[2]]>>]
                   [] OTHER -> ExpData(msg.id, 0, "d"))
          /\ subscriptions' = subscriptions
          /\ prods' = prods
          /\ pc' = "recv"]_vars

C9_Witness ==
    /\ subscriptions = [i \in Ids |-> 0]
    /\ prods = <<>>
    /\ Len(sent) = 2
    /\ sent[1] = ExpError("q1", "x1")
    /\ sent[2].type = "data" /\ sent[2].id = "q1" /\ sent[2].keys = {"data", "errors"}

\* C10: every connection_init is answered by exactly one connection_ack and
\* sets the connection parameters to its payload, whatever they were; no
\* other step changes the parameters or sends an ack.
C10_InitAcksAndOverwrites ==
    [][IF Handles(GQL_CONNECTION_INIT)
       THEN /\ sent' = Append(sent, ExpAck)
            /\ connection_params' = msg.kind
       ELSE /\ connection_params' = connection_params
            /\ \A k \in Len(sent) + 1..Len(sent') : sent'[k].type # "connection_ack"]_vars

C10_Witness ==
    /\ connection_params = "null"
    /\ sent = <<ExpAck, ExpAck>>
    /\ nrecv = 2

\* ------------------------------------------------------------------ C11
StartTriggered(m) == m.type \in {"data", "error", "complete"}

AckBefore(k) == \E j \in 1..k - 1 : sent[j].type = "connection_ack"

\* C11 (as claimed): on every connection no message triggered by a start
\* (data, error, complete) precedes the connection_ack on the wire.
C11_AckBeforeStartTraffic ==
    \A k \in 1..Len(sent) : StartTriggered(sent[k]) => AckBefore(k)

\* C11 (amended): on a connection whose client sends connection_init before
\* its first start, no message triggered by a start precedes the
\* connection_ack on the wire.
C11_AckBeforeStartTrafficAfterInit ==
    handshake = "init" => \A k \in 1..Len(sent) : StartTriggered(sent[k]) => AckBefore(k)

C11_Witness ==
    /\ handshake = "init"
    /\ Len(sent) >= 3
    /\ sent[1] = ExpAck
    /\ sent[2] = ExpData("q1", 1, 0)
    /\ sent[3] = ExpComplete("q1", 1)

\* ------------------------------------------------------------------ C12
\* C12: handling connection_terminate closes the socket and sends nothing;
\* from then on the loop receives and dispatches no client message, it is in
\* its teardown or past it, and once the teardown has run no registered
\* producer is still active.
C12_TerminateIsTerminal ==
    /\ [][/\ Handles(GQL_CONNECTION_TERMINATE) =>
               /\ application_state' = DISCONNECTED
               /\ pc' = "teardown"
               /\ sent' = sent
          /\ application_state = DISCONNECTED =>
               /\ application_state' = DISCONNECTED
               /\ pc' \in {"teardown", "done"}
               /\ nrecv' = nrecv
               /\ msg' = NoMsg]_vars
    /\ [](application_state = DISCONNECTED /\ pc = "done" =>
            \A i \in Ids : subscriptions[i] # 0 =>
                prods[subscriptions[i]].state # "active")

C12_Witness ==
    /\ application_state = DISCONNECTED
    /\ client_state = CONNECTED
    /\ pc = "done"
    /\ \E i \in Ids : subscriptions[i] # 0 /\ prods[subscriptions[i]].state = "torn"

\* ------------------------------------------------------------------ C13
\* the messages of one subscription, as its observer may send them: the
\* values in the order the producer yielded them (the k-th message carries the
\* k-th value), then at most one message with errors alone, then at most one
\* complete, which is last
InProducerOrder(s, id) ==
    \A k \in 1..Len(s) :
        /\ s[k].id = id
        /\ CASE s[k].type = "complete" -> k = Len(s)
             [] s[k].type = "data" /\ s[k].keys = {"data"} -> s[k].data = k - 1
             [] s[k].type = "data" /\ s[k].keys = {"errors"} ->
                    \A j \in k + 1..Len(s) : s[j].type = "complete"
             [] OTHER -> FALSE

\* C13: whatever the interleaving of the observers with each other and with
\* the message loop, the messages of each subscription reach the socket in
\* the order its producer yielded them, its complete last; for an id used by
\* one subscription alone these are all the messages tagged with the id.
C13_PerIdOrder ==
    \A p \in Producers :
        /\ InProducerOrder(SentBy(p), prods[p].id)
        /\ OnlyUse(p) => Tagged(prods[p].id) = SentBy(p)

C13_Witness ==
    /\ Len(prods) = 2
    /\ prods[1].id # prods[2].id
    /\ Len(sent) = 4
    /\ sent[1] = ExpData(prods[1].id, 1, 0)
    /\ sent[2] = ExpData(prods[2].id, 2, 0)
    /\ sent[3] = ExpComplete(prods[1].id, 1)
    /\ sent[4] = ExpComplete(prods[2].id, 2)

\* ============================================================ HTTP claims
\* the header value up to its first ";"
BeforeSemicolon(h) ==
    LET at == {k \in 1..Len(h) : h[k] = ";"}
    IN  IF at = {} THEN h
        ELSE SubSeq(h, 1, (CHOOSE k \in at : \A j \in at : k <= j) - 1)

MediaType == BeforeSemicolon(request.content_type)

\* the text in lower case
LowerCase(text) ==
    [k \in 1..Len(text) |->
        CASE text[k] = "Application/JSON" -> "application/json"
          [] text[k] = "Multipart/Form-Data" -> "multipart/form-data"
          [] OTHER -> text[k]]

Unresolved == [t |-> "unresolved"]

\* the segments of a dotted path
Segments(path) == SelectSeq(path, LAMBDA a : a # ".")

RECURSIVE ValueAt(_, _)
\* the value a path resolves to in a tree: a segment that is a number indexes
\* an array, any other is the key of an object
ValueAt(tree, segs) ==
    IF segs = <<>> THEN tree
    ELSE LET g == Head(segs) IN
         IF tree.t = "arr" /\ g \in {"0", "1", "2"}
         THEN LET n == CASE g = "0" -> 1 [] g = "1" -> 2 [] OTHER -> 3
              IN  IF n <= Len(tree.v) THEN ValueAt(tree.v[n], Tail(segs)) ELSE Unresolved
         ELSE IF tree.t = "obj" /\ g \notin {"0", "1", "2"} /\ g \in DOMAIN tree.v
         THEN ValueAt(tree.v[g], Tail(segs))
         ELSE Unresolved

ExpBadRequest(message) ==
    [status |-> 400, json |-> TRUE, keys |-> {"errors"}, body |-> [errors |-> <<message>>]]

\* the request is a multipart form that the extractor is injecting into, or
\* has returned from
FormParsed == request.body.kind = "form" /\ hpc \in {"inject", "batch"}

\* ------------------------------------------------------------------ C14
\* C14: when the extracted operations value is an array, from a JSON body or
\* from a multipart operations field, the response is 400 with errors =
\* ["This server does not support batching"] and graphql() is not called.
C14_BatchIsRejected ==
    [][hpc = "batch" /\ operations.t = "arr" =>
          /\ response' = ExpBadRequest("This server does not support batching")
          /\ engine_calls' = 0
          /\ hraised' = NoError
          /\ hpc' = "done"]_hvars

C14_Witness ==
    /\ hpc = "done"
    /\ request.body.kind = "form"
    /\ operations = Arr(<<Obj([query |-> Str(2), variables |-> Obj([file |-> File("0")])])>>)
    /\ response = ExpBadRequest("This server does not support batching")
    /\ engine_calls = 0

\* ------------------------------------------------------------------ C15
\* C15: a POST whose Content-Type up to its first ";" is neither
\* application/json nor multipart/form-data, or is missing, is answered 400
\* with a body whose errors array has one element; graphql() is not called.
C15_OtherContentTypeIs400 ==
    [][(hpc = "extract"
            /\ MediaType \notin {<<"application/json">>, <<"multipart/form-data">>}) =>
          /\ response'.status = 400
          /\ response'.json
          /\ response'.keys = {"errors"}
          /\ Len(response'.body.errors) = 1
          /\ engine_calls' = 0
          /\ hraised' = NoError
          /\ hpc' = "done"]_hvars

C15_Witness ==
    /\ hpc = "done"
    /\ request.method = "POST"
    /\ request.content_type = <<>>
    /\ request.body = [kind |-> "json", value |-> OpNoVariables]
    /\ response =
         ExpBadRequest("Content-type must be application/json or multipart/form-data")

\* ------------------------------------------------------------------ C16
\* C16: a Content-Type that differs from application/json or
\* multipart/form-data in letter case only is handled as that type: it is not
\* rejected as a content type, and a JSON body sent with it is extracted.
C16_CaseInsensitiveDispatch ==
    [][(hpc = "extract"
            /\ LowerCase(MediaType) \in {<<"application/json">>, <<"multipart/form-data">>}) =>
          /\ response' #
               ExpBadRequest("Content-type must be application/json or multipart/form-data")
          /\ (LowerCase(MediaType) = <<"application/json">> /\ request.body.kind = "json") =>
               (hpc' = "batch" /\ operations' = request.body.value)]_hvars

\* ------------------------------------------------------------------ C17
\* the (name, path) pairs of the map sent, as (item, place in its paths)
MapPairs ==
    UNION {{<<i, j>> : j \in 1..Len(request.body.map.v[i].paths)} :
              i \in 1..Len(request.body.map.v)}

PairName(q) == request.body.map.v[q[1]].name
PairPath(q) == request.body.map.v[q[1]].paths[q[2]]

\* q comes before r in the order of the map
PairBefore(q, r) == q[1] < r[1] \/ (q[1] = r[1] /\ q[2] < r[2])

\* C17: an injection whose file name is among the uploaded parts and whose
\* path resolves to a null puts that part's handle at the path and raises
\* nothing; and in the operations value multipart parsing returns, every path
\* of the map that resolved to a null in the operations sent holds a handle,
\* that of the first pair of the map that names the path (one name listed
\* with several paths fills them all).
C17_MappedNullsAreFilled ==
    /\ [][(hpc = "inject" /\ todo # <<>>
              /\ Head(todo).name \in request.body.files
              /\ ValueAt(operations, Segments(Head(todo).path)) = Null) =>
            /\ ValueAt(operations', Segments(Head(todo).path)) = File(Head(todo).name)
            /\ hraised' = NoError
            /\ hpc' = "inject"
            /\ todo' = Tail(todo)]_hvars
    /\ []((hpc = "batch" /\ request.body.kind = "form") =>
            \A q \in MapPairs :
                (PairName(q) \in request.body.files
                    /\ ValueAt(request.body.operations, Segments(PairPath(q))) = Null) =>
                \E r \in MapPairs :
                    /\ PairPath(r) = PairPath(q)
                    /\ \A r0 \in MapPairs : PairPath(r0) = PairPath(q) => ~PairBefore(r0, r)
                    /\ ValueAt(operations, Segments(PairPath(q))) = File(PairName(r)))

C17_Witness ==
    /\ hpc = "batch"
    /\ request.body.kind = "form"
    /\ request.body.map = Map(<<Item("0", <<PathFiles0, PathFiles1>>)>>)
    /\ request.body.operations = OpFiles
    /\ operations =
         Obj([query |-> Str(2),
              variables |-> Obj([files |-> Arr(<<File("0"), File("0")>>)])])

\* ------------------------------------------------------------------ C18
\* C18: an injection at a path that holds a value other than null leaves the
\* tree as it is and raises nothing; so injecting twice at one path, the same
\* file or another, gives the tree that injecting once gives.
C18_InjectionNeverOverwrites ==
    /\ [][(hpc = "inject" /\ todo # <<>>
              /\ Head(todo).name \in request.body.files
              /\ ValueAt(operations, Segments(Head(todo).path)).t
                    \notin {"null", "unresolved"}) =>
            /\ operations' = operations
            /\ hraised' = NoError
            /\ hpc' = "inject"]_hvars
    /\ [](FormParsed =>
            \A q \in MapPairs : \A f, g \in {"0", "1"} :
                LET once == InjectFileToOperations(operations, File(f),
                                                   PathTuple(PairPath(q)))
                IN  once.t # "raise" =>
                      InjectFileToOperations(once, File(g), PathTuple(PairPath(q))) = once)

C18_Witness ==
    /\ hpc = "batch"
    /\ request.body.kind = "form"
    /\ request.body.map = Map(<<Item("0", <<PathFile>>), Item("1", <<PathFile>>)>>)
    /\ request.body.operations = OpFile
    /\ operations = Obj([query |-> Str(2), variables |-> Obj([file |-> File("0")])])

\* ------------------------------------------------------------------ C19
\* C19: a multipart POST whose map names a file field that is not among the
\* uploaded parts is answered with a JSON body that has errors, and graphql()
\* is not called.
C19_MissingFileIsAnErrorResponse ==
    (/\ hpc = "done"
     /\ request.method = "POST"
     /\ MediaType = <<"multipart/form-data">>
     /\ request.body.kind = "form"
     /\ request.body.operations.t \in {"obj", "arr"}
     /\ request.body.map.t = "map"
     /\ \E i \in 1..Len(request.body.map.v) :
            request.body.map.v[i].name \notin request.body.files) =>
    (/\ response.json
     /\ "errors" \in response.keys
     /\ engine_calls = 0)

\* ------------------------------------------------------------------ C20
\* C20: a POST whose operations value was extracted and is not an array is
\* answered 200 with a body that has data, and has errors exactly when the
\* engine reported errors: one formatted entry for each, in the same order.
C20_ExtractedOperationGets200 ==
    [][(hpc = "batch" /\ operations.t # "arr") =>
          /\ response'.status = 200
          /\ response'.json
          /\ "data" \in response'.keys
          /\ response'.body.data = result'.data
          /\ engine_calls' = 1
          /\ "errors" \in response'.keys <=> result'.errors # <<>>
          /\ "errors" \in response'.keys =>
                response'.body.errors =
                    [i \in 1..Len(result'.errors) |-> [message |-> result'.errors[i]]]]_hvars

\* ------------------------------------------------------------------ C21
ExpHandlerResponse == [status |-> 200, json |-> FALSE, keys |-> {}, body |-> <<"on_get">>]

ExpMethodNotAllowed == [status |-> 405, json |-> FALSE, keys |-> {}, body |-> <<>>]

C22_StopOfUnknownIdIsNoOp ==
    [][(Handles(GQL_STOP) /\ subscriptions[msg.id] = 0) =>
          /\ sent' = sent
          /\ subscriptions' = subscriptions
          /\ connection_params' = connection_params
          /\ prods' = prods
          /\ client_state' = client_state
          /\ application_state' = application_state
          /\ raised' = raised
          /\ pc' = "recv"]_vars

C22_Witness ==
    /\ 0 \in stopped
    /\ pc = "recv"
    /\ nrecv = 2
    /\ IsOpen
    /\ sent = <<>>
    /\ Len(prods) = 1
    /\ prods[1].state = "active"
    /\ subscriptions[prods[1].id] = 1

\* ------------------------------------------------------------------ C23
\* a step of the observer of subscription p (the message loop stays where it is)
ObserverStep(p) ==
    /\ p \in Producers
    /\ pc' = pc
    /\ ObserveNext(p) \/ ObserveSent(p)

\* the event loop runs every task that is ready: an observer that can resume
\* does resume
FairSpec == Spec /\ \A p \in 1..MaxProds : WF_vars(ObserverStep(p))

C24_RegistryChangedOnlyByLoop ==
    [][/\ (Handles(GQL_START) /\ msg.kind = "sub_ok") =>
            subscriptions' = [subscriptions EXCEPT ![msg.id] = Len(prods) + 1]
       /\ (Handles(GQL_STOP) /\ subscriptions[msg.id] # 0) =>
            subscriptions' = [subscriptions EXCEPT ![msg.id] = 0]
       /\ subscriptions' # subscriptions =>
            \/ Handles(GQL_START) /\ msg.kind = "sub_ok"
            \/ Handles(GQL_STOP) /\ subscriptions[msg.id] # 0
       /\ (\E p \in Producers : prods'[p].obs # prods[p].obs \/ NewBy(p) # <<>>) =>
            subscriptions' = subscriptions
       /\ pc \in {"teardown", "done"} => subscriptions' = subscriptions]_vars

C24_Witness ==
    /\ Len(prods) = 2
    /\ prods[1].id # prods[2].id
    /\ subscriptions[prods[1].id] = 1
    /\ subscriptions[prods[2].id] = 2
    /\ prods[1].state = "failed" /\ prods[1].obs = "finished" /\ prods[1].yielded = 1
    /\ Len(SentBy(1)) = 3
    /\ prods[2].state = "exhausted" /\ prods[2].obs = "finished"
    /\ HasComplete(2)

\* ------------------------------------------------------------------ C25
\* C25: at most one client message is being handled at any time: a message is
\* received only when none is being handled, the message being handled stays
\* the same until its handler has finished, and only then is the next one
\* received; while a message is being handled every observer that has not
\* ended can take its next step.
C25_OneMessageAtATime ==
    /\ [](msg # NoMsg <=> pc = "handle")
    /\ [][/\ nrecv' # nrecv =>
               /\ pc = "recv" /\ msg = NoMsg
               /\ pc' = "handle" /\ msg' \in ClientMessages
               /\ nrecv' = nrecv + 1
          /\ pc = "handle" =>
               /\ nrecv' = nrecv
               /\ \/ pc' = "handle" /\ msg' = msg
                  \/ pc' # "handle" /\ msg' = NoMsg]_vars
    /\ [](\A p \in Producers :
            (pc = "handle" /\ prods[p].obs \in {"wait", "sending"}) =>
                ENABLED ObserverStep(p))

C25_Witness ==
    /\ pc = "handle"
    /\ nrecv = 2
    /\ msg.type = GQL_STOP
    /\ Len(prods) = 1
    /\ subscriptions[msg.id] = 1
    /\ prods[1].obs = "sending"
    /\ prods[1].yielded = 1

\* ------------------------------------------------------------------ C26
OtherType(type) ==
    type \notin {"connection_init", "connection_terminate", "start", "stop"}

\* C26: handling a client message whose type is none of connection_init,
\* connection_terminate, start and stop, or that has no type, sends nothing,
\* leaves the registry, the producers and the connection parameters as they
\* were, leaves the socket open and raises nothing: the loop goes on to
\* receive the next message.
C26_OtherTypeIsIgnored ==
    [][(pc = "handle" /\ OtherType(msg.type) /\ pc' # "handle") =>
          /\ sent' = sent
          /\ subscriptions' = subscriptions
          /\ prods' = prods
          /\ connection_params' = connection_params
          /\ client_state' = client_state
          /\ application_state' = application_state
          /\ IsOpen
          /\ ~raised'
          /\ pc' = "recv"]_vars

C26_Witness ==
    /\ pc = "handle"
    /\ nrecv = 2
    /\ msg.type = NoType
    /\ sent = <<>>
    /\ prods = <<>>
    /\ handshake = "none"
    /\ stopped = {}
    /\ connection_params = NoParams
    /\ IsOpen

\* ------------------------------------------------------------------ C27
ExpErrorsOnly(id, p, e) ==
    [type |-> "data", id |-> id, prod |-> p, keys |-> {"errors"}, data |-> "-",
     errors |-> <<[message |-> e]>>]

\* C27: when the producer of a live subscription raises after k values, on a
\* socket that is open, the subscription has sent its k data messages and the
\* step sends one data message with errors alone and then one complete, both
\* with its id, and nothing else; when the socket is not open no complete is
\* sent; a subscription whose producer has raised sends nothing more.
C27_ProducerFailure ==
    [][\A p \in Producers :
          /\ (prods[p].state = "active" /\ prods'[p].state = "failed" /\ IsOpen) =>
                /\ SentBy(p) = DataOf(p)
                /\ NewBy(p) = <<ExpErrorsOnly(prods[p].id, p, "producer"),
                                ExpComplete(prods[p].id, p)>>
                /\ NewIn(sent, sent') = NewBy(p)
                /\ prods'[p].obs = "finished"
                /\ prods'[p].yielded = prods[p].yielded
          /\ (prods[p].state = "active" /\ prods'[p].state = "failed" /\ ~IsOpen) =>
                \A k \in 1..Len(NewBy(p)) : NewBy(p)[k].type # "complete"
          /\ prods[p].state = "failed" =>
                /\ NewBy(p) = <<>>
                /\ prods'[p] = prods[p]]_vars

C27_Witness ==
    \E p \in Producers :
        /\ IsOpen
        /\ prods[p].state = "failed"
        /\ prods[p].obs = "finished"
        /\ prods[p].yielded = 1
        /\ Len(SentBy(p)) = 3
        /\ SentBy(p)[1].keys = {"data"}
        /\ SentBy(p)[2].type = "data" /\ SentBy(p)[2].keys = {"errors"}
        /\ SentBy(p)[3].type = "complete"
        /\ Len(Tagged(prods[p].id)) = 3

\* ------------------------------------------------------------------ C28
\* C28: every data message an observer sends for a produced result carries
\* the result's errors, formatted, beside its data: a result with errors is
\* sent with an errors key in the payload.
C28_DataCarriesResultErrors ==
    \A k \in 1..Len(sent) :
        (sent[k].prod # 0 /\ sent[k].type = "data" /\ "data" \in sent[k].keys) =>
            LET r == ProducedResult(sent[k].data) IN
            /\ sent[k].errors = FormatAll(r.errors)
            /\ r.errors # <<>> => "errors" \in sent[k].keys

\* ------------------------------------------------------------------ C29
\* C29: once the socket is closed or disconnected no observer sends or tries
\* to send: no message of any subscription is added and no observer ends in
\* an error raised by a send.
C29_NoSendOnClosedSocket ==
    [][~IsOpen =>
          \A p \in Producers :
              /\ NewBy(p) = <<>>
              /\ prods'[p].obs = "crashed" => prods[p].obs = "crashed"]_vars

\* ------------------------------------------------------------------ C30
\* C30: handling a start whose payload is absent or has no query sends one
\* error message for its id and nothing else, raises nothing, leaves the
\* registry and the producers as they were and the socket open: the loop goes
\* on to receive the next message.
C30_MalformedStartIsLocal ==
    [][(Handles(GQL_START) /\ msg.kind \in {"absent", "noquery"}) =>
          /\ Len(NewIn(sent, sent')) = 1
          /\ sent'[Len(sent')].type = "error"
          /\ sent'[Len(sent')].id = msg.id
          /\ ~raised'
          /\ pc' = "recv"
          /\ subscriptions' = subscriptions
          /\ prods' = prods
          /\ application_state' = application_state]_vars

\* ------------------------------------------------------------------ C31
Live(p) == prods[p].state = "active"

\* C31: in every reachable state no two live producers carry the same id, and
\* every live producer is the one registered under its id (so that a stop for
\* the id or the teardown closes it), also after a start that reuses the id
\* of a live subscription.
C31_LiveProducersAreRegistered ==
    /\ \A p, q \in Producers :
          (p # q /\ Live(p) /\ Live(q)) => prods[p].id # prods[q].id
    /\ \A p \in Producers : Live(p) => subscriptions[prods[p].id] = p

\* ------------------------------------------------------------------ C32
\* C32: an error other than a disconnect raised while a message is handled
\* takes the loop to the teardown, not past it: the registry is as it was when
\* the error was raised, the teardown closes every registered producer that
\* is still active, and only then has the error left _run_websocket_server.
C32_TeardownOnError ==
    /\ [][/\ (pc = "handle" /\ raised') =>
               /\ pc' = "teardown"
               /\ subscriptions' = subscriptions
               /\ prods' = prods
          /\ (raised /\ pc = "teardown" /\ pc' # pc) =>
               /\ pc' = "done"
               /\ subscriptions' = subscriptions
               /\ \A i \in Ids :
                     subscriptions[i] # 0 =>
                         prods'[subscriptions[i]].state =
                             IF prods[subscriptions[i]].state = "active"
                             THEN "torn" ELSE prods[subscriptions[i]].state
          /\ raised => raised']_vars
    /\ []((raised /\ pc = "done") =>
            \A i \in Ids :
                subscriptions[i] # 0 => prods[subscriptions[i]].state # "active")

C32_Witness ==
    /\ raised
    /\ pc = "done"
    /\ client_state = CONNECTED
    /\ application_state = CONNECTED
    /\ \E i \in Ids : subscriptions[i] # 0 /\ prods[subscriptions[i]].state = "torn"

\* ------------------------------------------------------------------ C33
Completes(p) == SelectSeq(SentBy(p), LAMBDA m : m.type = "complete")

====
